---- MODULE Spec2Model ----
(***************************************************************************)
(* A model of biocodices/project: the Project workspace (project.py) and   *)
(* the table codec (csv2df.py).                                            *)
(*                                                                         *)
(* Text (paths, file names) is a sequence of one-character strings, so     *)
(* that `in`, str.endswith and str.replace are computed character by       *)
(* character as Python computes them.                                      *)
(***************************************************************************)
EXTENDS Integers, Sequences, FiniteSets, TLC

VARIABLES
    dirs,   \* the directories that exist on the filesystem (a set of paths)
    fs,     \* the regular files that exist: path -> file content
    fs0,    \* the files that existed before any Project was constructed
    pc,     \* Project.__init__: each constructing caller's position
    i,      \* Project.__init__: each caller's index in the `for directory` loop
    exc,    \* Project.__init__: the exception a caller's construction raised
    self,   \* Project.__init__: the attributes set on each caller's instance
    df,     \* the caller's DataFrame object (the table the caller holds)
    ret     \* the outcome of the last workspace / codec call

vars == <<dirs, fs, fs0, pc, i, exc, self, df, ret>>

----------------------------------------------------------------------------
(* Bounds *)

\* rows of the tables the codec is run on
MaxRows == 2
\* files a run may create in the workspace
MaxFiles == 1

----------------------------------------------------------------------------
(* Python str operations *)

\* s[k:k+len(sub)] == sub, 1-based
StartsAt(s, sub, k) ==
    /\ k >= 1
    /\ k + Len(sub) - 1 <= Len(s)
    /\ SubSeq(s, k, k + Len(sub) - 1) = sub

\* `sub in s`
Contains(s, sub) == \E k \in 1..(Len(s) + 1) : StartsAt(s, sub, k)

\* s.endswith(suffix)
EndsWith(s, suffix) ==
    /\ Len(suffix) <= Len(s)
    /\ SubSeq(s, Len(s) - Len(suffix) + 1, Len(s)) = suffix

\* s.startswith(prefix)
StartsWith(s, prefix) == StartsAt(s, prefix, 1)

\* s.replace(old, new): every non-overlapping occurrence, left to right
RECURSIVE Replace(_, _, _)
Replace(s, old, new) ==
    IF s = <<>> THEN <<>>
    ELSE IF old # <<>> /\ StartsAt(s, old, 1)
         THEN new \o Replace(SubSeq(s, Len(old) + 1, Len(s)), old, new)
         ELSE <<Head(s)>> \o Replace(Tail(s), old, new)

----------------------------------------------------------------------------
(* os.path *)

Sep == <<"/">>

\* os.path.join(a, b)
Join(a, b) ==
    IF StartsWith(b, Sep) THEN b
    ELSE IF a = <<>> \/ EndsWith(a, Sep) THEN a \o b
    ELSE a \o Sep \o b

\* os.path.join(a, b, c)
Join3(a, b, c) == Join(Join(a, b), c)

\* the index of the last "/" of p, 0 when there is none
LastSep(p) ==
    LET at == {k \in 1..Len(p) : p[k] = "/"}
    IN  IF at = {} THEN 0 ELSE CHOOSE k \in at : \A j \in at : j <= k

\* the directory that holds p ("/" holds "/p")
Parent(p) ==
    LET k == LastSep(p)
    IN  IF k <= 1 THEN Sep ELSE SubSeq(p, 1, k - 1)

\* os.path.basename(p)
Basename(p) == SubSeq(p, LastSep(p) + 1, Len(p))

\* the process's working directory, and os.path.abspath on the inputs used:
\* an absolute path is kept, a relative one is joined to the working directory
Cwd == Sep
Abspath(p) == IF StartsWith(p, Sep) THEN p ELSE Join(Cwd, p)

isdir(p) == p \in dirs
isfile(p) == p \in DOMAIN fs

----------------------------------------------------------------------------
(* The project's directories *)

DataName == <<"d", "a", "t", "a">>
ResultsName == <<"r", "e", "s", "u", "l", "t", "s">>

\* the base_dir arguments of the constructions: both name the same directory
BaseDirArgs == {<<"/", "p">>, <<"p">>}

\* self.dir, self.data_dir, self.results_dir
SelfDir(base_dir) == Abspath(base_dir)
DataDir(base_dir) == Join(SelfDir(base_dir), DataName)
ResultsDir(base_dir) == Join(SelfDir(base_dir), ResultsName)

\* the base directory of the workspace the calls below are made on
ThePj == <<"/", "p">>

----------------------------------------------------------------------------
(* Cells: Python objects held in a DataFrame, as <<type, repr>> *)

Nan == <<"float", "nan">>
None == <<"NoneType", "None">>
Int1 == <<"int", "1">>
Float1 == <<"float", "1.0">>
BoolTrue == <<"bool", "True">>
StrAbc == <<"str", "abc">>
StrJsonList == <<"str", "[1]">>
StrEmpty == <<"str", "">>
List1 == <<"list", "[1]">>
DictA1 == <<"dict", "{'a': 1}">>

PyType(c) == c[1]
PyRepr(c) == c[2]

\* pandas.isna(c)
isna(c) == c \in {Nan, None}

\* a == b on cell values: equal numbers are equal whatever their type
NumValue(c) == IF c \in {Int1, Float1} THEN 1 ELSE 0
SameValue(a, b) ==
    \/ a = b
    \/ isna(a) /\ isna(b)
    \/ NumValue(a) # 0 /\ NumValue(a) = NumValue(b)

\* json.dumps(c), on the cells above
json_dumps(c) ==
    CASE c = Nan -> <<"str", "NaN">>
      [] c = None -> <<"str", "null">>
      [] c = BoolTrue -> <<"str", "true">>
      [] c = DictA1 -> <<"str", "{\"a\": 1}">>
      [] PyType(c) = "str" -> <<"str", "\"" \o PyRepr(c) \o "\"">>
      [] OTHER -> <<"str", PyRepr(c)>>

\* json.loads(c): the value, or the exception it raises
json_loads(c) ==
    IF PyType(c) # "str" THEN [exc |-> "TypeError", value |-> c]
    ELSE CASE PyRepr(c) = "[1]" -> [exc |-> "", value |-> List1]
           [] PyRepr(c) = "{\"a\": 1}" -> [exc |-> "", value |-> DictA1]
           [] PyRepr(c) = "1" -> [exc |-> "", value |-> Int1]
           [] PyRepr(c) = "1.0" -> [exc |-> "", value |-> Float1]
           [] PyRepr(c) = "true" -> [exc |-> "", value |-> BoolTrue]
           [] PyRepr(c) = "NaN" -> [exc |-> "", value |-> Nan]
           [] PyRepr(c) = "null" -> [exc |-> "", value |-> None]
           [] PyRepr(c) = "\"\"" -> [exc |-> "", value |-> StrEmpty]
           [] PyRepr(c) = "\"abc\"" -> [exc |-> "", value |-> StrAbc]
           [] OTHER -> [exc |-> "ValueError", value |-> c]

----------------------------------------------------------------------------
(* Tables: pandas.DataFrame *)

\* a Series: [name, dtype, cells]; a DataFrame: [index, columns]
Digit(k) ==
    CASE k = 0 -> "0" [] k = 1 -> "1" [] k = 2 -> "2" [] k = 3 -> "3"
      [] k = 4 -> "4" [] k = 5 -> "5" [] k = 6 -> "6" [] k = 7 -> "7"
      [] k = 8 -> "8" [] OTHER -> "9"

\* pandas.RangeIndex(n): 0, 1, ..., n-1
RangeIndex(n) ==
    [type |-> "RangeIndex", labels |-> [k \in 1..n |-> <<"int", Digit(k - 1)>>]]

\* an Int64Index whose labels are not the row positions: 5, 3, 9, 5, ...
Int64Labels(k) == <<"int", Digit(CASE k % 3 = 1 -> 5 [] k % 3 = 2 -> 3 [] OTHER -> 9)>>
Int64Index(n) ==
    [type |-> "Int64Index", labels |-> [k \in 1..n |-> Int64Labels(k)]]

\* an Index of string labels: "r1", "r2", ...
StrIndex(n) ==
    [type |-> "Index", labels |-> [k \in 1..n |-> <<"str", "r" \o Digit(k)>>]]

\* the dtype pandas gives a column built from these cells
DtypeOf(cells) ==
    LET types == {PyType(cells[k]) : k \in DOMAIN cells}
    IN  IF types = {"int"} THEN "int64"
        ELSE IF types = {"bool"} THEN "bool"
        ELSE IF types \subseteq {"int", "float"} THEN "float64"
        ELSE "object"

Series(name, cells) == [name |-> name, dtype |-> DtypeOf(cells), cells |-> cells]

NRows(t) == Len(t.index.labels)
ColumnNames(t) == [k \in DOMAIN t.columns |-> t.columns[k].name]

\* the table of a call that returned none
NoTable == [index |-> RangeIndex(0), columns |-> <<>>]

----------------------------------------------------------------------------
(* csv2df.dump_df *)

DotCsv == <<".", "c", "s", "v">>
DotTsv == <<".", "t", "s", "v">>

\* kwargs['sep'] once the default is filled in; sep = "None": not in kwargs
ResolveSep(filepath, sep) ==
    IF sep # "None" THEN sep
    ELSE IF Contains(filepath, DotTsv) THEN "\t" ELSE ","

\* filepath, with '.csv' appended or not
ResolvePathEndsWith(filepath, sepUsed) ==
    IF sepUsed = "," /\ ~EndsWith(filepath, DotCsv)
    THEN filepath \o DotCsv ELSE filepath
ResolvePath(filepath, sepUsed) ==
    IF sepUsed = "," /\ ~Contains(filepath, DotCsv)
    THEN filepath \o DotCsv ELSE filepath

\* the index flag handed to to_csv; index = "None": guess from the index type
ResolveIndexByLabels(t, index) ==
    IF index = "None"
    THEN t.index.labels # RangeIndex(NRows(t)).labels
    ELSE index = "True"
ResolveIndex(t, index) ==
    IF index = "None"
    THEN t.index.type \notin {"RangeIndex", "Int64Index"}
    ELSE index = "True"

\* series.dropna().map(type).unique()
DropnaTypes(series) ==
    {PyType(series.cells[k]) :
        k \in {j \in DOMAIN series.cells : ~isna(series.cells[j])}}

\* len(types) == 1 and types[0] in (list, dict)
ShouldJsonify(series) ==
    LET types == DropnaTypes(series)
    IN  Cardinality(types) = 1 /\ types \subseteq {"list", "dict"}

\* the names of the columns to JSONify
columns_to_jsonify(t) ==
    {t.columns[k].name : k \in {j \in DOMAIN t.columns : ShouldJsonify(t.columns[j])}}

\* series.map(json.dumps): the function is applied to every cell, NaN included
MapJsonDumps(series) ==
    Series(series.name, [k \in DOMAIN series.cells |-> json_dumps(series.cells[k])])

\* for column_name in columns_to_jsonify: df[column_name] = ...map(json.dumps)
JsonifyColumns(t, names) ==
    [t EXCEPT !.columns =
        [k \in DOMAIN t.columns |->
            IF t.columns[k].name \in names
            THEN MapJsonDumps(t.columns[k]) ELSE t.columns[k]]]

\* the object the local name df is bound to when the columns are serialised:
\* "copy" after df = df.copy(), "arg" (the caller's object) otherwise
DfRefNoCopy(names) == "arg"
DfRef(names) == IF names # {} THEN "copy" ELSE "arg"

\* str(c) as DataFrame.to_csv writes a cell; a missing cell is written as ''
FieldText(c) == IF isna(c) THEN "" ELSE PyRepr(c)

\* DataFrame.to_csv(filepath, index=index, sep=sep): the file's content
to_csv(t, index, sep) ==
    [fmt |-> "csv",
     sep |-> sep,
     header |-> (IF index THEN <<"">> ELSE <<>>) \o ColumnNames(t),
     index |-> <<>>,
     rows |-> [r \in 1..NRows(t) |->
                 (IF index THEN <<<<"field", FieldText(t.index.labels[r])>>>> ELSE <<>>)
                 \o [k \in DOMAIN t.columns |->
                       <<"field", FieldText(t.columns[k].cells[r])>>]]]

\* dump_df(df, filepath, index, sep=sep): the path returned, what is written
\* there, and the caller's DataFrame object once the call has returned
dump_df(t, filepath, index, sep) ==
    LET sepUsed == ResolveSep(filepath, sep)
        path == ResolvePath(filepath, sepUsed)
        indexUsed == ResolveIndex(t, index)
        names == columns_to_jsonify(t)
        ref == DfRef(names)
        objects == [arg |-> t, copy |-> t]
        serialised == [objects EXCEPT ![ref] = JsonifyColumns(objects[ref], names)]
    IN  [filepath |-> path,
         written |-> path,
         sep |-> sepUsed,
         index |-> indexUsed,
         jsonified |-> names,
         handed |-> serialised[ref],
         caller |-> serialised.arg,
         content |-> to_csv(serialised[ref], indexUsed, sepUsed)]

----------------------------------------------------------------------------
(* csv2df.read_csv *)

\* the field texts pandas.read_csv reads as missing (its default na_values)
NaTexts == {"", "NaN", "nan", "null", "NA", "NULL", "N/A"}
IsNaText(x) == x \in NaTexts
IsIntText(x) == x \in {"0", "1", "2", "3", "4", "5", "6", "7", "8", "9"}
IsFloatText(x) == x \in {"1.0"}
IsBoolText(x) == x \in {"True", "False"}

\* one column as pandas.read_csv types it: integers, floats (integers with a
\* missing field too), booleans, and otherwise the generic object dtype,
\* which also holds booleans next to missing fields; a column named in the
\* dtype map is read as text
InferColumn(name, texts, dtype) ==
    LET rows == DOMAIN texts
        nonNa == {texts[r] : r \in {q \in rows : ~IsNaText(texts[q])}}
        hasNa == \E r \in rows : IsNaText(texts[r])
        typed(type) == [r \in rows |->
            IF IsNaText(texts[r]) THEN Nan
            ELSE IF type = "float" /\ IsIntText(texts[r])
                 THEN <<"float", texts[r] \o ".0">>
                 ELSE <<type, texts[r]>>]
    IN  IF name \in dtype
        THEN [name |-> name, dtype |-> "object", cells |-> typed("str")]
        ELSE IF nonNa = {}
        THEN [name |-> name, dtype |-> "float64", cells |-> typed("float")]
        ELSE IF \A x \in nonNa : IsIntText(x)
        THEN IF hasNa
             THEN [name |-> name, dtype |-> "float64", cells |-> typed("float")]
             ELSE [name |-> name, dtype |-> "int64", cells |-> typed("int")]
        ELSE IF \A x \in nonNa : IsIntText(x) \/ IsFloatText(x)
        THEN [name |-> name, dtype |-> "float64", cells |-> typed("float")]
        ELSE IF \A x \in nonNa : IsBoolText(x)
        THEN IF hasNa
             THEN [name |-> name, dtype |-> "object", cells |-> typed("bool")]
             ELSE [name |-> name, dtype |-> "bool", cells |-> typed("bool")]
        ELSE [name |-> name, dtype |-> "object", cells |-> typed("str")]

\* pandas.read_csv(filepath, dtype=dtype) on a delimited file: the header
\* names the columns (an unnamed first column is "Unnamed: 0"), the rows get
\* a fresh RangeIndex
pd_read_csv(content, dtype) ==
    LET n == Len(content.rows)
        name(k) == IF content.header[k] = "" THEN "Unnamed: 0" ELSE content.header[k]
    IN  [index |-> RangeIndex(n),
         columns |-> [k \in DOMAIN content.header |->
             InferColumn(name(k), [r \in 1..n |-> content.rows[r][k][2]], dtype)]]

\* the file read_csv settles on: the path as given, else with '.csv' appended,
\* else with every '.csv' replaced by '.tsv'; when none is a file, the path
\* named in the error is the last guess with every '.tsv' removed
ResolveReadPath(filepath) ==
    LET p1 == IF isfile(filepath) THEN filepath ELSE filepath \o DotCsv
        p2 == IF isfile(p1) THEN p1 ELSE Replace(p1, DotCsv, DotTsv)
    IN  IF isfile(p2)
        THEN [found |-> TRUE, filepath |-> p2]
        ELSE [found |-> FALSE, filepath |-> Replace(p2, DotTsv, <<>>)]

\* the exceptions _series_as_JSON catches
Caught == {"ValueError"}

\* _series_as_JSON(series): the parsed series, None when the first cell that
\* fails raises an exception that is caught, else that exception
series_as_JSON(series) ==
    LET rows == DOMAIN series.cells
        filled == [r \in rows |->
            IF isna(series.cells[r]) THEN <<"str", "\"\"">> ELSE series.cells[r]]
        loaded == [r \in rows |-> json_loads(filled[r])]
        failing == {r \in rows : loaded[r].exc # ""}
        first == CHOOSE r \in failing : \A q \in failing : r <= q
        parsed == [r \in rows |->
            IF loaded[r].value = StrEmpty THEN Nan ELSE loaded[r].value]
    IN  IF failing = {}
        THEN [exc |-> "", none |-> FALSE,
              series |-> [name |-> series.name, dtype |-> "object", cells |-> parsed]]
        ELSE IF loaded[first].exc \in Caught
        THEN [exc |-> "", none |-> TRUE, series |-> series]
        ELSE [exc |-> loaded[first].exc, none |-> TRUE, series |-> series]

\* the positions of maybe_JSON_series in df
maybe_JSON_series(t, dtype) ==
    {k \in DOMAIN t.columns :
        t.columns[k].name \notin dtype /\ t.columns[k].dtype = "object"}

\* read_csv(filepath, dtype=dtype): the exception raised and the path its
\* message names, or the file read, the table pandas produced (raw) and the
\* table returned
read_csv(filepath, dtype) ==
    LET at == ResolveReadPath(filepath)
        raw == pd_read_csv(fs[at.filepath], dtype)
        maybe == maybe_JSON_series(raw, dtype)
        new(k) == series_as_JSON(raw.columns[k])
        raised == {new(k).exc : k \in maybe} \ {""}
    IN  IF ~at.found
        THEN [exc |-> "FileNotFoundError", msg |-> at.filepath,
              filepath |-> <<>>, raw |-> NoTable, table |-> NoTable]
        ELSE IF raised # {}
        THEN [exc |-> CHOOSE e \in raised : TRUE, msg |-> <<>>,
              filepath |-> at.filepath, raw |-> raw, table |-> NoTable]
        ELSE [exc |-> "", msg |-> <<>>, filepath |-> at.filepath, raw |-> raw,
              table |-> [raw EXCEPT !.columns =
                  [k \in DOMAIN raw.columns |->
                      IF k \in maybe /\ ~new(k).none
                      THEN new(k).series ELSE raw.columns[k]]]]

----------------------------------------------------------------------------
(* Project: path resolution and the JSON format *)

Json == <<"j", "s", "o", "n">>
DotJson == <<".">> \o Json

\* Project._file_in_subdir(subdir, filename, check_exists) of the workspace
\* at ThePj: the path returned, or the exception raised and the path it names
file_in_subdir(subdir, filename, check_exists) ==
    LET filepath == Join3(SelfDir(ThePj), subdir, filename)
    IN  IF check_exists /\ ~isfile(filepath) /\ ~isdir(filepath)
        THEN [exc |-> "FileNotFoundError", msg |-> filepath, path |-> <<>>]
        ELSE [exc |-> "", msg |-> <<>>, path |-> filepath]

\* an optional argument: NoArg is None, Arg(x) is the text x
NoArg == {}
Arg(x) == {x}
ArgText(a) == CHOOSE x \in a : TRUE

\* bool(a): None and the empty text are falsy
Truthy(a) == a # NoArg /\ ArgText(a) # <<>>

Star == <<"*">>

\* the entries directly under directory d: files and directories
Entries(d) == {q \in (DOMAIN fs \cup dirs) \ {Sep, d} : Parent(q) = d}

\* fnmatch.fnmatch(name, pat) for patterns of literal characters and '*'
RECURSIVE FnMatch(_, _)
FnMatch(name, pat) ==
    IF pat = <<>> THEN name = <<>>
    ELSE IF Head(pat) = "*"
    THEN FnMatch(name, Tail(pat)) \/ (name # <<>> /\ FnMatch(Tail(name), pat))
    ELSE name # <<>> /\ Head(name) = Head(pat) /\ FnMatch(Tail(name), Tail(pat))

\* glob._ishidden
IsHidden(x) == StartsWith(x, <<".">>)

\* whether glob yields the entry called name for the pattern pat: a name
\* that starts with '.' is only matched by a pattern that starts with '.'
GlobMatchHidden(name, pat) == FnMatch(name, pat)
GlobMatch(name, pat) ==
    /\ FnMatch(name, pat)
    /\ IsHidden(name) => IsHidden(pat)

\* glob.glob(pathname), for a pathname whose directory part has no wildcard;
\* the paths are returned in the directory's order, here as their set
glob(pathname) ==
    {q \in Entries(Parent(pathname)) : GlobMatch(Basename(q), Basename(pathname))}

\* re.search(regex, s) for a regex of literal characters, '$' at its end or not
re_search(regex, s) ==
    IF EndsWith(regex, <<"$">>)
    THEN EndsWith(s, SubSeq(regex, 1, Len(regex) - 1))
    ELSE Contains(s, regex)

\* Project._files_in_subdir(subdir, pattern, regex): the exception raised,
\* or the listing returned
files_in_subdir(subdir, pattern, regex) ==
    LET all_files == glob(Join(subdir, IF Truthy(pattern) THEN ArgText(pattern) ELSE Star))
    IN  IF Truthy(pattern) /\ Truthy(regex)
        THEN [exc |-> "ValueError", listing |-> {}]
        ELSE IF ~Truthy(pattern) /\ ~Truthy(regex)
        THEN [exc |-> "", listing |-> all_files]
        ELSE IF Truthy(pattern)
        THEN [exc |-> "", listing |-> glob(Join(subdir, ArgText(pattern)))]
        ELSE [exc |-> "", listing |->
                {fn \in all_files : re_search(ArgText(regex), fn)}]

\* the filename dump_df_as_json resolves
JsonFilename(filename) ==
    IF ~EndsWith(filename, Json) THEN filename \o DotJson ELSE filename

\* a cell as DataFrame.to_json writes it: a missing cell is null
JsonValue(c) == IF isna(c) THEN <<"null", "null">> ELSE c

\* DataFrame.to_json(filepath, orient='split'): columns, index and data
to_json(t) ==
    [fmt |-> "json",
     sep |-> "",
     header |-> ColumnNames(t),
     index |-> t.index.labels,
     rows |-> [r \in 1..NRows(t) |->
                 [k \in DOMAIN t.columns |-> JsonValue(t.columns[k].cells[r])]]]

\* pandas.read_json(filepath, orient='split') on such a document
pd_read_json(content) ==
    LET n == Len(content.rows)
        cell(c) == IF c = <<"null", "null">> THEN Nan ELSE c
    IN  [index |->
            [type |-> IF \A k \in DOMAIN content.index : content.index[k][1] = "int"
                      THEN "Int64Index" ELSE "Index",
             labels |-> content.index],
         columns |-> [k \in DOMAIN content.header |->
             Series(content.header[k], [r \in 1..n |-> cell(content.rows[r][k])])]]

\* the file load_json_df reads
JsonReadPath(filepath) ==
    IF ~isfile(filepath) /\ isfile(filepath \o DotJson)
    THEN filepath \o DotJson ELSE filepath

----------------------------------------------------------------------------
(* The calls *)

Ret0 ==
    [op |-> "", filename |-> <<>>, subdir |-> <<>>, check_exists |-> FALSE,
     filepath |-> <<>>, index |-> "None", sep |-> "None", dtype |-> {},
     exc |-> "", msg |-> <<>>, path |-> <<>>, returned |-> <<>>,
     written |-> <<>>, read |-> <<>>, sepUsed |-> "", indexUsed |-> FALSE,
     jsonified |-> {}, before |-> NoTable, handed |-> NoTable,
     raw |-> NoTable, table |-> NoTable,
     pattern |-> NoArg, regex |-> NoArg, listing |-> {}]

\* the filesystem once content is written at path
Write(path, content) ==
    [q \in DOMAIN fs \cup {path} |-> IF q = path THEN content ELSE fs[q]]

\* the outcome of the last call is held in ret until the caller takes it.
\* A run creates at most MaxFiles files; rewriting a file is always possible
MayWrite(path) ==
    \/ path \in DOMAIN fs
    \/ Cardinality(DOMAIN fs \ DOMAIN fs0) < MaxFiles

\* csv2df.dump_df(df, filepath, index, sep=sep), and Project.dump_df, which
\* returns the path it passed on
DumpDfCall(op, filename, subdir, filepath, index, sep) ==
    /\ ret = Ret0
    /\ \E r \in {dump_df(df, filepath, index, sep)} :
        /\ MayWrite(r.written)
        /\ fs' = Write(r.written, r.content)
        /\ df' = r.caller
        /\ ret' = [Ret0 EXCEPT !.op = op, !.filename = filename,
                     !.subdir = subdir, !.filepath = filepath,
                     !.index = index, !.sep = sep,
                     !.path = IF op = "Project.dump_df" THEN filepath ELSE r.filepath,
                     !.returned = r.filepath, !.written = r.written,
                     !.sepUsed = r.sep, !.indexUsed = r.index,
                     !.jsonified = r.jsonified, !.before = df,
                     !.handed = r.handed]
        /\ UNCHANGED <<dirs, fs0, pc, i, exc, self>>

DumpDf(filepath, index, sep) ==
    DumpDfCall("dump_df", <<>>, <<>>, filepath, index, sep)

PjDumpDf(filename, subdir, index, sep) ==
    DumpDfCall("Project.dump_df", filename, subdir,
               file_in_subdir(subdir, filename, FALSE).path, index, sep)

\* csv2df.read_csv(filepath, dtype=dtype), and Project.read_csv; the file
\* read, when there is one, is a delimited file
ReadCsvCall(op, filename, subdir, filepath, dtype) ==
    /\ ret = Ret0
    /\ \E at \in {ResolveReadPath(filepath)}, r \in {read_csv(filepath, dtype)} :
        /\ at.found => fs[at.filepath].fmt = "csv"
        /\ ret' = [Ret0 EXCEPT !.op = op, !.filename = filename,
                     !.subdir = subdir, !.filepath = filepath,
                     !.dtype = dtype, !.exc = r.exc, !.msg = r.msg,
                     !.read = r.filepath, !.raw = r.raw, !.table = r.table,
                     !.before = df]
        /\ UNCHANGED <<dirs, fs, fs0, pc, i, exc, self, df>>

ReadCsv(filepath, dtype) == ReadCsvCall("read_csv", <<>>, <<>>, filepath, dtype)

PjReadCsv(filename, subdir, dtype) ==
    ReadCsvCall("Project.read_csv", filename, subdir,
                file_in_subdir(subdir, filename, FALSE).path, dtype)

\* Project.data_file / results_file / _file_in_subdir
FileInSubdir(subdir, filename, check_exists) ==
    /\ ret = Ret0
    /\ \E r \in {file_in_subdir(subdir, filename, check_exists)} :
        /\ ret' = [Ret0 EXCEPT !.op = "_file_in_subdir", !.filename = filename,
                     !.subdir = subdir, !.check_exists = check_exists,
                     !.exc = r.exc, !.msg = r.msg, !.path = r.path]
        /\ UNCHANGED <<dirs, fs, fs0, pc, i, exc, self, df>>

\* Project.data_files / results_files / _files_in_subdir
FilesInSubdir(subdir, pattern, regex) ==
    /\ ret = Ret0
    /\ \E r \in {files_in_subdir(subdir, pattern, regex)} :
        /\ ret' = [Ret0 EXCEPT !.op = "_files_in_subdir", !.subdir = subdir,
                     !.pattern = pattern, !.regex = regex,
                     !.exc = r.exc, !.listing = r.listing]
        /\ UNCHANGED <<dirs, fs, fs0, pc, i, exc, self, df>>

\* Project.dump_df_as_json(df, filename, subdir)
PjDumpDfAsJson(filename, subdir) ==
    /\ ret = Ret0
    /\ \E filepath \in {file_in_subdir(subdir, JsonFilename(filename), FALSE).path} :
        /\ MayWrite(filepath)
        /\ fs' = Write(filepath, to_json(df))
        /\ ret' = [Ret0 EXCEPT !.op = "dump_df_as_json", !.filename = filename,
                     !.subdir = subdir, !.filepath = filepath,
                     !.path = filepath, !.written = filepath, !.before = df]
        /\ UNCHANGED <<dirs, fs0, pc, i, exc, self, df>>

\* Project.load_json_df(filename, subdir); pandas.read_json raises ValueError
\* when there is no JSON document at the path
PjLoadJsonDf(filename, subdir) ==
    /\ ret = Ret0
    /\ \E filepath \in {JsonReadPath(file_in_subdir(subdir, filename, FALSE).path)} :
      \E ok \in {isfile(filepath) /\ fs[filepath].fmt = "json"} :
        /\ ret' = [Ret0 EXCEPT !.op = "load_json_df", !.filename = filename,
                     !.subdir = subdir, !.filepath = filepath,
                     !.exc = IF ok THEN "" ELSE "ValueError",
                     !.read = IF ok THEN filepath ELSE <<>>,
                     !.table = IF ok THEN pd_read_json(fs[filepath]) ELSE NoTable,
                     !.before = df]
        /\ UNCHANGED <<dirs, fs, fs0, pc, i, exc, self, df>>

\* the caller takes the outcome of the call: the next call can be made
Return ==
    /\ ret # Ret0
    /\ ret' = Ret0
    /\ UNCHANGED <<dirs, fs, fs0, pc, i, exc, self, df>>

----------------------------------------------------------------------------
(* Project.__init__ *)

\* the callers that construct a Project over the same base directory
Callers == {"c1", "c2"}

NoSelf == [dir |-> <<>>, name |-> <<>>, data_dir |-> <<>>, results_dir |-> <<>>]

\* [self.dir, self.data_dir, self.results_dir], the list caller c loops
\* over, and the directory the loop is at
Directories(c) == <<self[c].dir, self[c].data_dir, self[c].results_dir>>
Directory(c) == Directories(c)[i[c]]

\* the attribute assignments before the loop
InitAttrs(c, base_dir) ==
    /\ pc[c] = "start"
    /\ self' = [self EXCEPT ![c] =
            [dir |-> SelfDir(base_dir),
             name |-> Basename(SelfDir(base_dir)),
             data_dir |-> DataDir(base_dir),
             results_dir |-> ResultsDir(base_dir)]]
    /\ pc' = [pc EXCEPT ![c] = "isdir"]
    /\ i' = [i EXCEPT ![c] = 1]
    /\ UNCHANGED <<dirs, fs, fs0, exc, df, ret>>

\* the loop goes on to the next directory, or the constructor returns
NextDirectory(c) ==
    IF i[c] = Len(Directories(c))
    THEN pc' = [pc EXCEPT ![c] = "done"] /\ i' = i
    ELSE pc' = [pc EXCEPT ![c] = "isdir"] /\ i' = [i EXCEPT ![c] = i[c] + 1]

\* `if not isdir(directory)`
InitIsdir(c) ==
    /\ pc[c] = "isdir"
    /\ IF isdir(Directory(c))
       THEN NextDirectory(c)
       ELSE pc' = [pc EXCEPT ![c] = "mkdir"] /\ i' = i
    /\ UNCHANGED <<dirs, fs, fs0, exc, self, df, ret>>

\* os.mkdir(directory): FileExistsError when the path exists,
\* FileNotFoundError when its parent does not
InitMkdir(c) ==
    /\ pc[c] = "mkdir"
    /\ IF isdir(Directory(c)) \/ isfile(Directory(c))
       THEN /\ exc' = [exc EXCEPT ![c] = "FileExistsError"]
            /\ pc' = [pc EXCEPT ![c] = "raised"]
            /\ UNCHANGED <<dirs, i>>
       ELSE IF ~isdir(Parent(Directory(c)))
       THEN /\ exc' = [exc EXCEPT ![c] = "FileNotFoundError"]
            /\ pc' = [pc EXCEPT ![c] = "raised"]
            /\ UNCHANGED <<dirs, i>>
       ELSE /\ dirs' = dirs \cup {Directory(c)}
            /\ NextDirectory(c)
            /\ exc' = exc
    /\ UNCHANGED <<fs, fs0, self, df, ret>>

----------------------------------------------------------------------------
(* The inputs *)

\* the cells of column "a" (scalars) and of column "b" (lists, mappings and
\* text that reads as JSON)
CellsA == {Int1, Nan, BoolTrue, StrAbc}
CellsB == {List1, DictA1, Nan, StrJsonList}

Indexes(n) == {RangeIndex(n), Int64Index(n), StrIndex(n)}

\* the tables the codec is run on: MaxRows rows, columns "a" and "b"
Tables ==
    {[index |-> ix, columns |-> <<Series("a", ca), Series("b", cb)>>] :
        ix \in Indexes(MaxRows),
        ca \in [1..MaxRows -> CellsA],
        cb \in [1..MaxRows -> CellsB]}

\* the table the workspace calls are run on
PjTable ==
    [index |-> RangeIndex(1),
     columns |-> <<Series("a", <<Int1>>), Series("b", <<List1>>)>>]

IndexFlags == {"None", "True", "False"}
Seps == {"None", ",", "\t"}
Dtypes == {{}, {"b"}}

\* file names: o, o.csv, o.tsv, o.json, ojson, o.csv.gz, and the part .cs
Stem == <<"o">>
Names ==
    {Stem, Stem \o DotCsv, Stem \o DotTsv, Stem \o DotJson, Stem \o Json,
     Stem \o DotCsv \o <<".", "g", "z">>, <<".", "c", "s">>}

\* glob patterns: none, '', '*', '*.csv', '.*', 'o.csv'
Patterns ==
    {NoArg, Arg(<<>>), Arg(Star), Arg(Star \o DotCsv), Arg(<<".">> \o Star),
     Arg(Stem \o DotCsv)}

\* regexes: none, '', 'csv$', 'cs', 'data'
Regexes ==
    {NoArg, Arg(<<>>), Arg(<<"c", "s", "v", "$">>), Arg(<<"c", "s">>),
     Arg(DataName)}

\* the directories data_files and results_files list
ListedDirs == {DataDir(ThePj), ResultsDir(ThePj)}

\* subdir arguments: 'results' (the default) and self.data_dir
Subdirs == {ResultsName, DataDir(ThePj)}

\* the path the codec's tables are dumped to and read from
CodecPath == Join(ResultsDir(ThePj), <<"t">>)

\* the filesystem root, and the directories of a constructed workspace
RootDirs == {Sep}
PjDirs == RootDirs \cup {SelfDir(ThePj), DataDir(ThePj), ResultsDir(ThePj)}

NoFiles == [q \in {} |-> Ret0]
\* data/o.csv and data/o.tsv
DataFiles ==
    [q \in {Join(DataDir(ThePj), Stem \o DotCsv), Join(DataDir(ThePj), Stem \o DotTsv)} |->
        to_csv(PjTable, FALSE, IF EndsWith(q, DotCsv) THEN "," ELSE "\t")]

\* the files of f whose directory is in d
FilesIn(f, d) == [q \in {x \in DOMAIN f : Parent(x) \in d} |-> f[q]]

Constructed(c) ==
    [dir |-> SelfDir(ThePj), name |-> Basename(SelfDir(ThePj)),
     data_dir |-> DataDir(ThePj), results_dir |-> ResultsDir(ThePj)]

----------------------------------------------------------------------------
(* Specifications *)

\* The workspace: a constructed Project, called with every file name
Init ==
    /\ dirs = PjDirs
    /\ fs \in {NoFiles, DataFiles}
    /\ fs0 = fs
    /\ self = [c \in Callers |-> Constructed(c)]
    /\ pc = [c \in Callers |-> "done"]
    /\ i = [c \in Callers |-> Len(Directories(c))]
    /\ exc = [c \in Callers |-> ""]
    /\ df = PjTable
    /\ ret = Ret0

PjDumpDfStep ==
    \E filename \in Names, subdir \in Subdirs, sep \in Seps :
        PjDumpDf(filename, subdir, "None", sep)
PjReadCsvStep ==
    \E filename \in Names, subdir \in Subdirs : PjReadCsv(filename, subdir, {})
FileInSubdirStep ==
    \E filename \in Names, subdir \in Subdirs, check_exists \in BOOLEAN :
        FileInSubdir(subdir, filename, check_exists)
FilesInSubdirStep ==
    \E subdir \in ListedDirs, pattern \in Patterns, regex \in Regexes :
        FilesInSubdir(subdir, pattern, regex)
PjDumpDfAsJsonStep ==
    \E filename \in Names, subdir \in Subdirs : PjDumpDfAsJson(filename, subdir)
PjLoadJsonDfStep ==
    \E filename \in Names, subdir \in Subdirs : PjLoadJsonDf(filename, subdir)

Next ==
    \/ PjDumpDfStep
    \/ PjReadCsvStep
    \/ FileInSubdirStep
    \/ FilesInSubdirStep
    \/ PjDumpDfAsJsonStep
    \/ PjLoadJsonDfStep
    \/ Return

Spec == Init /\ [][Next]_vars

\* The codec: every table, dumped to and read from one path
InitCodec ==
    /\ dirs = PjDirs
    /\ fs = NoFiles
    /\ fs0 = fs
    /\ self = [c \in Callers |-> Constructed(c)]
    /\ pc = [c \in Callers |-> "done"]
    /\ i = [c \in Callers |-> Len(Directories(c))]
    /\ exc = [c \in Callers |-> ""]
    /\ df \in Tables
    /\ ret = Ret0

DumpDfStep == \E index \in IndexFlags : DumpDf(CodecPath, index, "None")
ReadCsvStep == \E dtype \in Dtypes : ReadCsv(CodecPath, dtype)
DumpDfAsJsonStep == PjDumpDfAsJson(<<"t">>, ResultsName)
LoadJsonDfStep == PjLoadJsonDf(<<"t">>, ResultsName)

NextCodec ==
    \/ DumpDfStep
    \/ ReadCsvStep
    \/ DumpDfAsJsonStep
    \/ LoadJsonDfStep
    \/ Return

SpecCodec == InitCodec /\ [][NextCodec]_vars

\* Construction: two callers construct a Project over the same base
\* directory, on a filesystem that holds any part of an earlier workspace
InitInit ==
    /\ dirs \in {RootDirs,
                 RootDirs \cup {SelfDir(ThePj)},
                 RootDirs \cup {SelfDir(ThePj), DataDir(ThePj)},
                 RootDirs \cup {SelfDir(ThePj), ResultsDir(ThePj)},
                 PjDirs}
    /\ fs \in {FilesIn(DataFiles, dirs), NoFiles}
    /\ fs0 = fs
    /\ pc = [c \in Callers |-> "start"]
    /\ i = [c \in Callers |-> 1]
    /\ exc = [c \in Callers |-> ""]
    /\ self = [c \in Callers |-> NoSelf]
    /\ df = PjTable
    /\ ret = Ret0

InitAttrsStep == \E c \in Callers, base_dir \in BaseDirArgs : InitAttrs(c, base_dir)
InitIsdirStep == \E c \in Callers : InitIsdir(c)
InitMkdirStep == \E c \in Callers : InitMkdir(c)

NextInit ==
    \/ InitAttrsStep
    \/ InitIsdirStep
    \/ InitMkdirStep

SpecInit == InitInit /\ [][NextInit]_vars

----------------------------------------------------------------------------
(* Claims *)

DumpOps == {"dump_df", "Project.dump_df"}
ReadOps == {"read_csv", "Project.read_csv"}

\* C1: _file_in_subdir with check_exists and no file or directory at
\* subdir/filename is decided by the entries of subdir whose name contains
\* filename: exactly one is returned, none is a not-found error naming
\* filename, two or more is an 'ambiguous' error and no path is returned.
C1_FuzzyResolution ==
    LET d == Join(SelfDir(ThePj), ret.subdir)
        exact == Join(d, ret.filename)
        entries == {q \in (DOMAIN fs \cup dirs) \ {d, Sep} : Parent(q) = d}
        candidates == {q \in entries : Contains(Basename(q), ret.filename)}
    IN  (/\ ret.op = "_file_in_subdir"
         /\ ret.check_exists
         /\ ~isfile(exact) /\ ~isdir(exact))
        => CASE Cardinality(candidates) = 1 ->
                   ret.exc = "" /\ ret.path \in candidates
             [] Cardinality(candidates) = 0 ->
                   ret.exc = "FileNotFoundError" /\ Contains(ret.msg, ret.filename)
             [] OTHER ->
                   ret.exc = "Ambiguous" /\ ret.path = <<>>

\* column col holds no list and no mapping
AllScalar(col) ==
    \A r \in DOMAIN col.cells : PyType(col.cells[r]) \notin {"list", "dict"}

\* the non-missing cells of col are all lists, or all mappings
Uniform(col) ==
    LET present == {r \in DOMAIN col.cells : ~isna(col.cells[r])}
    IN  \/ \A r \in present : PyType(col.cells[r]) = "list"
        \/ \A r \in present : PyType(col.cells[r]) = "dict"

\* the same column names in the same order, the same value in every cell,
\* missing cells at the same positions
SameTable(a, b) ==
    /\ ColumnNames(a) = ColumnNames(b)
    /\ \A k \in DOMAIN a.columns :
        /\ DOMAIN a.columns[k].cells = DOMAIN b.columns[k].cells
        /\ \A r \in DOMAIN a.columns[k].cells :
              SameValue(a.columns[k].cells[r], b.columns[k].cells[r])

\* the non-missing cells of col are of one type (the tables of the data
\* model: a column is homogeneous apart from its missing cells)
Homogeneous(col) ==
    Cardinality({PyType(col.cells[r]) :
        r \in {q \in DOMAIN col.cells : ~isna(col.cells[q])}}) <= 1

\* col holds text and every text in it parses as JSON: the column the codec
\* is documented to mistake for a structured one
JsonLookingText(col) ==
    /\ \E r \in DOMAIN col.cells : PyType(col.cells[r]) = "str"
    /\ \A r \in DOMAIN col.cells :
          PyType(col.cells[r]) = "str" => json_loads(col.cells[r]).exc = ""

\* a table of the round trip: default row index, every column homogeneous
\* and all-scalar or uniformly lists or mappings, no text that parses as JSON
RoundTripTable(t) ==
    /\ t.index.type = "RangeIndex"
    /\ \A k \in DOMAIN t.columns :
          /\ Homogeneous(t.columns[k])
          /\ AllScalar(t.columns[k]) \/ Uniform(t.columns[k])
          /\ ~JsonLookingText(t.columns[k])

\* the file at path was written without an index column
NoIndexColumn(path) ==
    fs[path].fmt = "csv" => Len(fs[path].header) = Len(df.columns)

\* C2: for a table whose columns are each all-scalar or uniformly lists or
\* mappings, reading back the file dump_df / dump_df_as_json wrote gives a
\* table with the same column names, order and cell values, in both formats.
\* Stated on the tables of the data model, dumped and read with the default
\* arguments, and outside the documented limitation (text that parses as
\* JSON), where the claim is at its weakest.
C2_RoundTrip ==
    (/\ ret.op \in {"read_csv", "load_json_df"}
     /\ ret.dtype = {}
     /\ ret.read # <<>>
     /\ NoIndexColumn(ret.read)
     /\ RoundTripTable(ret.before))
    => /\ ret.exc = ""
       /\ SameTable(ret.table, ret.before)

\* C3: when read_csv finds none of its candidates, the FileNotFoundError
\* names exactly the path the caller passed.
C3_NotFoundNamesOriginal ==
    (ret.op \in ReadOps /\ ret.exc = "FileNotFoundError")
    => ret.msg = ret.filepath

\* C4: read_csv never raises over a cell that does not decode as JSON: a
\* generic column with no entry in the type map and such a cell keeps
\* exactly the values the reader produced.
C4_SilentFallback ==
    (ret.op \in ReadOps /\ ret.exc # "FileNotFoundError")
    => /\ ret.exc = ""
       /\ \A k \in DOMAIN ret.raw.columns :
            LET col == ret.raw.columns[k]
                decodes(c) == json_loads(IF isna(c) THEN <<"str", "\"\"">> ELSE c).exc = ""
            IN  (/\ col.dtype = "object"
                 /\ col.name \notin ret.dtype
                 /\ \E r \in DOMAIN col.cells : ~decodes(col.cells[r]))
                => ret.table.columns[k] = col

\* C5: dump_df serialises exactly the columns that have a non-missing cell
\* and whose non-missing cells are all lists or all mappings; in the table
\* handed to the writer their non-missing cells are JSON text, their missing
\* cells are still missing, and every other column is unchanged.
C5_StructuredColumns ==
    ret.op \in DumpOps
    => \A k \in DOMAIN ret.before.columns :
          LET col == ret.before.columns[k]
              out == ret.handed.columns[k]
              present == {r \in DOMAIN col.cells : ~isna(col.cells[r])}
              structured == present # {} /\ Uniform(col)
          IN  /\ (col.name \in ret.jsonified) <=> structured
              /\ structured =>
                    \A r \in DOMAIN col.cells :
                        IF isna(col.cells[r])
                        THEN isna(out.cells[r])
                        ELSE out.cells[r] = json_dumps(col.cells[r])
              /\ ~structured => out.cells = col.cells

\* the file written holds the row index as its first column
IndexWritten ==
    Len(fs[ret.written].header) = Len(ret.before.columns) + 1

\* the index is 0, 1, 2, ...: it carries nothing beyond the row position
TrivialIndex(index) == index.labels = RangeIndex(Len(index.labels)).labels

\* the explicit index flag decides
ExplicitIndex ==
    /\ ret.index = "True" => IndexWritten
    /\ ret.index = "False" => ~IndexWritten

ExpectedSep ==
    IF ret.sep # "None" THEN ret.sep
    ELSE IF Contains(ret.filepath, DotTsv) THEN "\t" ELSE ","

\* the file is written at the path dump_df returned, with that delimiter
WrittenAtReturned ==
    /\ ret.written = ret.returned
    /\ isfile(ret.returned)
    /\ fs[ret.returned].fmt = "csv"
    /\ fs[ret.returned].sep = ExpectedSep

\* C7 as stated: the path dump_df returns is the destination + '.csv'
\* exactly when the delimiter is comma and the destination does not end
\* with '.csv'.
C7_CsvAppendedUnlessSuffix ==
    ret.op \in DumpOps
    => /\ ret.sepUsed = ExpectedSep
       /\ ret.returned =
            IF ExpectedSep = "," /\ ~EndsWith(ret.filepath, DotCsv)
            THEN ret.filepath \o DotCsv ELSE ret.filepath
       /\ WrittenAtReturned

\* C7 as amended: the path dump_df returns is the destination + '.csv'
\* exactly when the delimiter is comma and '.csv' occurs nowhere in the
\* destination.
C7_CsvAppendedUnlessContained ==
    ret.op \in DumpOps
    => /\ ret.sepUsed = ExpectedSep
       /\ ret.returned =
            IF ExpectedSep = "," /\ ~Contains(ret.filepath, DotCsv)
            THEN ret.filepath \o DotCsv ELSE ret.filepath
       /\ WrittenAtReturned

\* a comma-delimited dump to a destination that holds '.csv' but does not
\* end with it was written at the destination as given
C7_Witness ==
    /\ ret.op \in DumpOps
    /\ ret.sepUsed = ","
    /\ Contains(ret.filepath, DotCsv)
    /\ ~EndsWith(ret.filepath, DotCsv)
    /\ ret.returned = ret.filepath
    /\ isfile(ret.filepath)

\* C8: in every interleaving of two constructions over the same base
\* directory neither raises, once both have finished the three directories
\* exist, and no file that was there before is removed.
C8_ConcurrentConstruction ==
    /\ \A c \in Callers : exc[c] = "" /\ pc[c] # "raised"
    /\ (\A c \in Callers : pc[c] = "done")
        => {SelfDir(ThePj), DataDir(ThePj), ResultsDir(ThePj)} \subseteq dirs
    /\ \A q \in DOMAIN fs0 : q \in DOMAIN fs /\ fs[q] = fs0[q]

\* C9: dump_df never mutates the caller's table.
C9_CallerTableUnchanged ==
    ret.op \in DumpOps => df = ret.before

\* a table with a serialised column was dumped: what the writer was handed
\* is not what the caller holds
C9_Witness ==
    /\ ret.op \in DumpOps
    /\ ret.jsonified # {}
    /\ ret.handed # ret.before
    /\ df = ret.before

\* C10: dump_df_as_json writes at, and returns, the path of filename +
\* '.json' unless filename already ends with '.json'.
C10_JsonSuffix ==
    ret.op = "dump_df_as_json"
    => LET name == IF EndsWith(ret.filename, DotJson)
                   THEN ret.filename ELSE ret.filename \o DotJson
           expected == Join3(SelfDir(ThePj), ret.subdir, name)
       IN  /\ ret.path = expected
           /\ ret.written = expected
           /\ isfile(expected)

\* the name of the entry at path q
EntryName(q) == Basename(q)

\* the outcome of a listing call: it raised exc and returned nothing, or it
\* returned exactly the paths of expected
ListingRaised(e) == ret.exc = e /\ ret.listing = {}
ListingIs(expected) == ret.exc = "" /\ ret.listing = expected

C12_ReturnsWrittenPath ==
    ret.op = "Project.dump_df"
    => /\ ret.path = ret.written
       /\ isfile(ret.path)
       /\ fs[ret.path].fmt = "csv"

====
